---- MODULE Spec2Model ----
(***************************************************************************)
(* A model of matscholar/rest.py: the Rester client (construction, the     *)
(* "with" scope, the low-level _make_request and the five domain           *)
(* operations) and the MatScholarRestError exception.                      *)
(*                                                                         *)
(* Python strings are TLA+ strings; concatenation is \o.  A Python value   *)
(* that may be None, a string, a list of strings, an int or a bool is a    *)
(* record of one fixed shape (PyVal), so that values of different Python   *)
(* types can be stored in the same variable.                               *)
(***************************************************************************)
EXTENDS Integers, Sequences, FiniteSets, TLC

VARIABLES
    env,        \* os.environ: the value of MATERIALS_SCHOLAR_API_KEY (a PyVal: None when unset)
    pc,         \* where the caller is: start, failed, constructed, inblock, unwinding, exited
    api_key,    \* self.api_key
    preamble,   \* self.preamble
    session,    \* self.session: [created, headers, closes]
    ctorExc,    \* the exception kind raised by Rester(...), "" when none
    nreq,       \* number of HTTP requests issued over the session
    ncalls,     \* number of domain calls made
    nfail,      \* number of domain calls that ended with an exception
    lastArgs,   \* the arguments of the last domain call
    lastReq,    \* the HTTP request that call sent
    lastResp,   \* what the transport answered
    lastOut,    \* how the call ended: return value or exception, and the warnings issued
    pending,    \* the exception leaving the "with" block, if any
    propagated  \* the exception that reached the caller of the "with" statement

vars == <<env, pc, api_key, preamble, session, ctorExc, nreq, ncalls, nfail,
          lastArgs, lastReq, lastResp, lastOut, pending, propagated>>

client == <<api_key, preamble, session>>

----------------------------------------------------------------------------
(* Bounds of the model.                                                    *)

\* domain calls made on one client (specification Spec)
MaxCalls == 2
\* longest list of words passed as positive / negative / wordphrases
MaxList == 2

----------------------------------------------------------------------------
(* Python values.                                                          *)

PyNone    == [t |-> "none", s |-> "", l |-> <<>>, n |-> 0, b |-> FALSE]
PyStr(x)  == [t |-> "str",  s |-> x,  l |-> <<>>, n |-> 0, b |-> FALSE]
PyList(x) == [t |-> "list", s |-> "", l |-> x,    n |-> 0, b |-> FALSE]
PyInt(x)  == [t |-> "int",  s |-> "", l |-> <<>>, n |-> x, b |-> FALSE]
PyBool(x) == [t |-> "bool", s |-> "", l |-> <<>>, n |-> 0, b |-> x]

\* isinstance(v, list)
IsList(v) == v.t = "list"

\* bool(v): None, "", [], 0 and False are falsy
Truthy(v) ==
    CASE v.t = "none" -> FALSE
      [] v.t = "str"  -> v.s # ""
      [] v.t = "list" -> v.l # <<>>
      [] v.t = "int"  -> v.n # 0
      [] OTHER        -> v.b

\* the characters of a string, as a sequence of one-character strings
Chars(str) == [i \in 1..Len(str) |-> SubSeq(str, i, i)]

\* sep.join(items), items a sequence of strings
RECURSIVE Join(_, _)
Join(sep, items) ==
    IF items = <<>> THEN ""
    ELSE IF Len(items) = 1 THEN items[1]
    ELSE items[1] \o sep \o Join(sep, Tail(items))

\* sep.join(v) for a Python value v: a list is joined item by item, a string
\* character by character (a str is an iterable of its characters)
PyJoin(sep, v) == IF IsList(v) THEN Join(sep, v.l) ELSE Join(sep, Chars(v.s))

Digit == <<"0", "1", "2", "3", "4", "5", "6", "7", "8", "9">>

\* str(n) for a natural number n
RECURSIVE IntStr(_)
IntStr(n) == IF n < 10 THEN Digit[n + 1] ELSE IntStr(n \div 10) \o Digit[(n % 10) + 1]

\* str(v), as "{}".format(v) and the query-string encoding render a value
PyFormat(v) ==
    CASE v.t = "none" -> "None"
      [] v.t = "str"  -> v.s
      [] v.t = "int"  -> IntStr(v.n)
      [] v.t = "bool" -> IF v.b THEN "True" ELSE "False"
      [] OTHER        -> "[" \o Join(", ", [i \in 1..Len(v.l) |-> "'" \o v.l[i] \o "'"]) \o "]"

\* whether sub occurs in str
Contains(str, sub) ==
    \E i \in 1..(Len(str) - Len(sub) + 1) : SubSeq(str, i, i + Len(sub) - 1) = sub

----------------------------------------------------------------------------
(* The HTTP transport (requests.Session) and the JSON codec, as the client *)
(* uses them.                                                              *)

NoParams == [k \in {} |-> ""]
NoJson == [k \in {} |-> PyNone]

\* session.get(url, params=payload): the query string carries every key of
\* the payload whose value is not None, each value rendered as text
EncodeParams(payload) ==
    [k \in {x \in DOMAIN payload : payload[x].t # "none"} |-> PyFormat(payload[k])]

SessionGet(headers, url, payload) ==
    [method |-> "GET", url |-> url, params |-> EncodeParams(payload),
     json |-> NoJson, headers |-> headers, verify |-> TRUE]

\* session.post(url, json=payload): the payload is the JSON body
SessionPost(headers, url, payload) ==
    [method |-> "POST", url |-> url, params |-> NoParams,
     json |-> payload, headers |-> headers, verify |-> TRUE]

NoRequest ==
    [method |-> "", url |-> "", params |-> NoParams, json |-> NoJson,
     headers |-> NoParams, verify |-> FALSE]

\* JSON values, in one record shape: a bool, a string, an object whose
\* members are kept as JSON text, a list, or the text of one member
NoMembers == [k \in {} |-> ""]
JBool(x) == [t |-> "bool", b |-> x,     s |-> "", d |-> NoMembers]
JStr(x)  == [t |-> "str",  b |-> FALSE, s |-> x,  d |-> NoMembers]
JDict(x) == [t |-> "dict", b |-> FALSE, s |-> "", d |-> x]
JList    == [t |-> "list", b |-> FALSE, s |-> "", d |-> NoMembers]
JRaw(x)  == [t |-> "raw",  b |-> FALSE, s |-> x,  d |-> NoMembers]
JNull    == [t |-> "null", b |-> FALSE, s |-> "", d |-> NoMembers]

\* the keys of the response envelope, in the order the service writes them
EnvelopeKeys == <<"valid_response", "warning", "error", "response">>
PayloadKeys == <<"mentioned_with", "processed_text">>

Range(f) == {f[i] : i \in DOMAIN f}

\* the values the service may put under each key of the envelope
EnvelopeValues(k) ==
    CASE k = "valid_response" -> {JBool(TRUE), JBool(FALSE)}
      [] k = "warning"        -> {JStr(""), JStr("low confidence")}
      [] k = "error"          -> {JStr("bad material")}
      [] OTHER                -> {JDict([x \in {"mentioned_with"} |-> "true"]),
                                  JDict([x \in {"processed_text"} |-> "[[\"Fe\"]]"]),
                                  JList}

\* every envelope the service may send: each key present or absent
Envelopes ==
    UNION { { d \in [K -> UNION {EnvelopeValues(k) : k \in K}] :
                \A k \in K : d[k] \in EnvelopeValues(k) } :
            K \in SUBSET Range(EnvelopeKeys) }

\* json.dumps of a JSON value
JsonDumpsValue(v) ==
    CASE v.t = "bool" -> IF v.b THEN "true" ELSE "false"
      [] v.t = "str"  -> "\"" \o v.s \o "\""
      [] v.t = "dict" ->
            LET ks == SelectSeq(PayloadKeys, LAMBDA k : k \in DOMAIN v.d)
            IN "{" \o Join(", ", [i \in 1..Len(ks) |-> "\"" \o ks[i] \o "\": " \o v.d[ks[i]]]) \o "}"
      [] v.t = "list" -> "[]"
      [] v.t = "null" -> "null"
      [] OTHER        -> v.s

\* json.dumps of an envelope
JsonDumps(doc) ==
    LET ks == SelectSeq(EnvelopeKeys, LAMBDA k : k \in DOMAIN doc)
    IN "{" \o Join(", ", [i \in 1..Len(ks) |-> "\"" \o ks[i] \o "\": " \o JsonDumpsValue(doc[ks[i]])]) \o "}"

EnvelopeTexts == {JsonDumps(d) : d \in Envelopes}

\* a body that is JSON but no object, and a body that is not JSON
ListText == "[]"
HtmlText == "<html>Bad Gateway</html>"

BodyTexts == EnvelopeTexts \cup {ListText, HtmlText}

ParsedEnvelope == [text \in EnvelopeTexts |-> CHOOSE d \in Envelopes : JsonDumps(d) = text]

\* json.loads(text): the parsed value, or the ValueError it raises
JsonLoads(text) ==
    IF text \in EnvelopeTexts
    THEN [ok |-> TRUE, object |-> TRUE, data |-> ParsedEnvelope[text]]
    ELSE IF text = ListText
    THEN [ok |-> TRUE, object |-> FALSE, data |-> [k \in {} |-> JNull]]
    ELSE [ok |-> FALSE, object |-> FALSE, data |-> [k \in {} |-> JNull]]

\* what the transport answers: it raises (ok = FALSE, no response object),
\* or it delivers a response with a status code and a body
TransportFailure == [ok |-> FALSE, status_code |-> 0, text |-> ""]
HttpResponse(code, text) == [ok |-> TRUE, status_code |-> code, text |-> text]

\* repr() of response.content, the body as bytes (the bodies of the model
\* hold no single quote, backslash or non-ASCII character)
BytesRepr(text) == "b'" \o text \o "'"

----------------------------------------------------------------------------
(* How a call ends.                                                        *)

MatScholarRestError == "MatScholarRestError"

NoOutcome == [kind |-> "none", exc |-> "", msg |-> "", value |-> JNull, warnings |-> <<>>]
Returned(v, w) == [kind |-> "return", exc |-> "", msg |-> "", value |-> v, warnings |-> w]
Raised(e, m, w) == [kind |-> "raise", exc |-> e, msg |-> m, value |-> JNull, warnings |-> w]

NoException == [kind |-> "", msg |-> ""]

\* str(KeyError(key))
KeyErrorMsg(key) == "'" \o key \o "'"
\* str() of the TypeError raised by indexing a list with a string
ListIndexMsg == "list indices must be integers or slices, not str"
\* str() of the error json.loads raises on a body that is not JSON
DecodeMsg == "Expecting value: line 1 column 1 (char 0)"
\* str() of the error the transport raises
TransportMsg == "Connection refused"

----------------------------------------------------------------------------
(* Rester._make_request                                                    *)

\* a status check that takes 200 alone
StatusAcceptedOnly200(code) == code = 200

\* response.status_code in [200, 400]
StatusAccepted(code) == code \in {200, 400}

\* a warning issued whenever the key is present, an empty text included
WarningsWhenPresent(data) ==
    IF "warning" \in DOMAIN data THEN <<data["warning"].s>> ELSE <<>>

\* the warnings issued for a parsed envelope: warnings.warn(data["warning"])
\* when data.get("warning") is truthy
Warnings(data) ==
    IF "warning" \in DOMAIN data /\ data["warning"].s # ""
    THEN <<data["warning"].s>>
    ELSE <<>>

\* the body of the try block, from the response on: the value it returns or
\* the exception raised inside it
TryBody(resp) ==
    IF ~resp.ok THEN Raised("ConnectionError", TransportMsg, <<>>)
    ELSE IF StatusAccepted(resp.status_code)
    THEN LET j == JsonLoads(resp.text)
             data == j.data
         IN IF ~j.ok THEN Raised("JSONDecodeError", DecodeMsg, <<>>)
            ELSE IF ~j.object THEN Raised("TypeError", ListIndexMsg, <<>>)
            ELSE IF "valid_response" \notin DOMAIN data
            THEN Raised("KeyError", KeyErrorMsg("valid_response"), <<>>)
            ELSE IF data["valid_response"].b
            THEN IF "response" \in DOMAIN data
                 THEN Returned(data["response"], Warnings(data))
                 ELSE Raised("KeyError", KeyErrorMsg("response"), Warnings(data))
            ELSE IF "error" \in DOMAIN data
                 THEN Raised(MatScholarRestError, data["error"].s, <<>>)
                 ELSE Raised("KeyError", KeyErrorMsg("error"), <<>>)
    ELSE Raised(MatScholarRestError,
                "REST query returned with error status code " \o IntStr(resp.status_code),
                <<>>)

\* a handler that lets the client's own exception through as raised
ExceptHandlerOwnPassed(inner, resp) ==
    IF inner.kind = "raise" /\ inner.exc # MatScholarRestError
    THEN Raised(MatScholarRestError,
                IF resp.ok
                THEN inner.msg \o ". Content: " \o BytesRepr(resp.text)
                ELSE inner.msg,
                inner.warnings)
    ELSE inner

\* except Exception as ex: every exception of the try block, the client's
\* own included, is raised again as MatScholarRestError; the body is
\* appended when there is a response object
ExceptHandler(inner, resp) ==
    IF inner.kind = "raise"
    THEN Raised(MatScholarRestError,
                IF resp.ok
                THEN inner.msg \o ". Content: " \o BytesRepr(resp.text)
                ELSE inner.msg,
                inner.warnings)
    ELSE inner

\* a request that is sent a second time when the first attempt failed
MakeRequestRetrying(self, sub_url, payload, method, resp) ==
    LET url == self.preamble \o sub_url
        req == IF method = "POST"
               THEN SessionPost(self.session.headers, url, payload)
               ELSE SessionGet(self.session.headers, url, payload)
        out == ExceptHandler(TryBody(resp), resp)
    IN [reqs |-> IF out.kind = "raise" THEN <<req, req>> ELSE <<req>>, out |-> out]

\* the requests a call sends, in order, and how the call ends
MakeRequest(self, sub_url, payload, method, resp) ==
    LET url == self.preamble \o sub_url
        req == IF method = "POST"
               THEN SessionPost(self.session.headers, url, payload)
               ELSE SessionGet(self.session.headers, url, payload)
    IN [reqs |-> <<req>>, out |-> ExceptHandler(TryBody(resp), resp)]

----------------------------------------------------------------------------
(* The domain operations.                                                  *)

\* value[key] on the result of a call, outside any try block
Subscript(r, key) ==
    IF r.out.kind = "raise" THEN r
    ELSE LET v == r.out.value
         IN [r EXCEPT !.out =
                IF v.t = "dict"
                THEN IF key \in DOMAIN v.d
                     THEN Returned(JRaw(v.d[key]), r.out.warnings)
                     ELSE Raised("KeyError", KeyErrorMsg(key), r.out.warnings)
                ELSE Raised("TypeError", ListIndexMsg, r.out.warnings)]

\* positive left as passed
PromotePositiveNever(positive) == positive

\* if not isinstance(positive, list): positive = [positive]
PromotePositive(positive) ==
    IF ~IsList(positive) THEN PyList(<<positive.s>>) ELSE positive

\* if negative and not isinstance(negative, list): negative = [negative]
PromoteNegative(negative) ==
    IF Truthy(negative) /\ ~IsList(negative) THEN PyList(<<negative.s>>) ELSE negative

\* a payload whose negative field is "" when there is no negative
SearchPayloadEmptyNegative(negative, ignore_missing, top_k) ==
    ("top_k" :> PyInt(top_k)) @@
    ("negative" :> IF Truthy(negative) THEN PyStr(PyJoin(",", negative)) ELSE PyStr("")) @@
    ("ignore_missing" :> PyBool(ignore_missing))

\* {'top_k': top_k, 'negative': ",".join(negative) if negative else None,
\*  'ignore_missing': ignore_missing}
SearchPayload(negative, ignore_missing, top_k) ==
    ("top_k" :> PyInt(top_k)) @@
    ("negative" :> IF Truthy(negative) THEN PyStr(PyJoin(",", negative)) ELSE PyNone) @@
    ("ignore_missing" :> PyBool(ignore_missing))

materials_search(self, positive, negative, ignore_missing, top_k, resp) ==
    LET pos == PromotePositive(positive)
        neg == PromoteNegative(negative)
        sub_url == "/embeddings/matsearch/" \o PyJoin(",", pos)
    IN MakeRequest(self, sub_url, SearchPayload(neg, ignore_missing, top_k), "GET", resp)

close_words(self, positive, negative, ignore_missing, top_k, resp) ==
    LET pos == PromotePositive(positive)
        neg == PromoteNegative(negative)
        sub_url == "/embeddings/close_words/" \o PyJoin(",", pos)
    IN MakeRequest(self, sub_url, SearchPayload(neg, ignore_missing, top_k), "GET", resp)

mentioned_with(self, material, words, resp) ==
    LET payload == ("material" :> PyStr(material)) @@
                   ("words" :> PyStr(Join(" ", words)))
    IN Subscript(MakeRequest(self, "/search/mentioned_with", payload, "GET", resp),
                 "mentioned_with")

process_text(self, text, exclude_punct, phrases, resp) ==
    LET payload == ("exclude_punct" :> PyBool(exclude_punct)) @@
                   ("phrases" :> PyBool(phrases))
    IN Subscript(MakeRequest(self, "/embeddings/preprocess/" \o text, payload, "GET", resp),
                 "processed_text")

\* a get_embedding that posts only lists of two or more
get_embedding_posting_longer_lists(self, wordphrases, ignore_missing, resp) ==
    IF IsList(wordphrases) /\ Len(wordphrases.l) > 1
    THEN MakeRequest(self, "/embeddings",
                     ("wordphrases" :> wordphrases) @@
                     ("ignore_missing" :> PyBool(ignore_missing)),
                     "POST", resp)
    ELSE MakeRequest(self, "/embeddings/" \o (IF IsList(wordphrases) THEN Join(",", wordphrases.l) ELSE wordphrases.s),
                     ("ignore_missing" :> PyBool(ignore_missing)),
                     "GET", resp)

get_embedding(self, wordphrases, ignore_missing, resp) ==
    IF IsList(wordphrases)
    THEN MakeRequest(self, "/embeddings",
                     ("wordphrases" :> wordphrases) @@
                     ("ignore_missing" :> PyBool(ignore_missing)),
                     "POST", resp)
    ELSE MakeRequest(self, "/embeddings/" \o PyFormat(wordphrases),
                     ("ignore_missing" :> PyBool(ignore_missing)),
                     "GET", resp)

----------------------------------------------------------------------------
(* Construction and the "with" scope.                                      *)

NoSession == [created |-> FALSE, headers |-> NoParams, closes |-> 0]

DefaultEndpoint == "http://0.0.0.0:8080"

\* Rester.__init__: the exception it raises ("" when none) and the fields
\* it has set by then.  environ[...] raises KeyError when the variable is
\* unset, before the session is created.
ResterInit(key, endpoint, environ) ==
    IF key.t = "none" /\ environ.t = "none"
    THEN [exc |-> "KeyError", api_key |-> "", preamble |-> "", session |-> NoSession]
    ELSE LET k == IF key.t # "none" THEN key.s ELSE environ.s
         IN [exc |-> "", api_key |-> k, preamble |-> endpoint,
             session |-> [created |-> TRUE, headers |-> ("x-api-key" :> k), closes |-> 0]]

\* an __exit__ that closes the session only when the block ended normally
ResterExitOnSuccess(sess, exc) ==
    [session |-> IF exc.kind = "" THEN [sess EXCEPT !.closes = @ + 1] ELSE sess,
     suppress |-> FALSE]

\* Rester.__exit__(exc_type, exc_val, exc_tb): session.close(); it returns
\* None, so the exception of the block is not suppressed
ResterExit(sess, exc) ==
    [session |-> [sess EXCEPT !.closes = @ + 1], suppress |-> FALSE]

----------------------------------------------------------------------------
(* The state machine: one caller that constructs a client, enters the      *)
(* "with" block, makes domain calls and leaves the block.                  *)

\* the client object as the methods see it
Self == [api_key |-> api_key, preamble |-> preamble, session |-> session]

DefaultTopK == 10

NoArgs ==
    [op |-> "", positive |-> PyNone, negative |-> PyNone, ignore_missing |-> TRUE,
     top_k |-> DefaultTopK, material |-> "", words |-> <<>>, text |-> "",
     exclude_punct |-> FALSE, phrases |-> FALSE, wordphrases |-> PyNone]

Init ==
    /\ env \in {PyNone, PyStr("key-from-env")}
    /\ pc = "start"
    /\ api_key = ""
    /\ preamble = ""
    /\ session = NoSession
    /\ ctorExc = ""
    /\ nreq = 0
    /\ ncalls = 0
    /\ nfail = 0
    /\ lastArgs = NoArgs
    /\ lastReq = NoRequest
    /\ lastResp = TransportFailure
    /\ lastOut = NoOutcome
    /\ pending = NoException
    /\ propagated = NoException

\* m = Rester(key, endpoint)
Construct(key, endpoint) ==
    /\ pc = "start"
    /\ LET r == ResterInit(key, endpoint, env)
       IN /\ ctorExc' = r.exc
          /\ api_key' = r.api_key
          /\ preamble' = r.preamble
          /\ session' = r.session
          /\ pc' = IF r.exc = "" THEN "constructed" ELSE "failed"
    /\ UNCHANGED <<env, nreq, ncalls, nfail, lastArgs, lastReq, lastResp, lastOut, pending, propagated>>

\* with m: ... -- __enter__ returns self
Enter ==
    /\ pc = "constructed"
    /\ pc' = "inblock"
    /\ UNCHANGED <<env, api_key, preamble, session, ctorExc, nreq, ncalls, nfail,
                   lastArgs, lastReq, lastResp, lastOut, pending, propagated>>

\* the effect of one domain call with arguments args, answered by resp,
\* that sent r.reqs and ended as r.out
Finish(args, r, resp) ==
    /\ lastArgs' = args
    /\ lastReq' = r.reqs[Len(r.reqs)]
    /\ lastResp' = resp
    /\ lastOut' = r.out
    /\ nreq' = nreq + Len(r.reqs)
    /\ ncalls' = ncalls + 1
    /\ nfail' = nfail + (IF r.out.kind = "raise" THEN 1 ELSE 0)
    /\ UNCHANGED <<env, pc, api_key, preamble, session, ctorExc, pending, propagated>>

MaterialsSearchCall(positive, negative, ignore_missing, top_k, resp, limit) ==
    /\ pc = "inblock"
    /\ ncalls < limit
    /\ Finish([NoArgs EXCEPT !.op = "materials_search", !.positive = positive,
                             !.negative = negative, !.ignore_missing = ignore_missing,
                             !.top_k = top_k],
              materials_search(Self, positive, negative, ignore_missing, top_k, resp),
              resp)

CloseWordsCall(positive, negative, ignore_missing, top_k, resp, limit) ==
    /\ pc = "inblock"
    /\ ncalls < limit
    /\ Finish([NoArgs EXCEPT !.op = "close_words", !.positive = positive,
                             !.negative = negative, !.ignore_missing = ignore_missing,
                             !.top_k = top_k],
              close_words(Self, positive, negative, ignore_missing, top_k, resp),
              resp)

MentionedWithCall(material, words, resp, limit) ==
    /\ pc = "inblock"
    /\ ncalls < limit
    /\ Finish([NoArgs EXCEPT !.op = "mentioned_with", !.material = material,
                             !.words = words],
              mentioned_with(Self, material, words, resp),
              resp)

ProcessTextCall(text, exclude_punct, phrases, resp, limit) ==
    /\ pc = "inblock"
    /\ ncalls < limit
    /\ Finish([NoArgs EXCEPT !.op = "process_text", !.text = text,
                             !.exclude_punct = exclude_punct, !.phrases = phrases],
              process_text(Self, text, exclude_punct, phrases, resp),
              resp)

GetEmbeddingCall(wordphrases, ignore_missing, resp, limit) ==
    /\ pc = "inblock"
    /\ ncalls < limit
    /\ Finish([NoArgs EXCEPT !.op = "get_embedding", !.wordphrases = wordphrases,
                             !.ignore_missing = ignore_missing],
              get_embedding(Self, wordphrases, ignore_missing, resp),
              resp)

\* the block does not catch the exception of the call it just made
Propagate ==
    /\ pc = "inblock"
    /\ lastOut.kind = "raise"
    /\ pc' = "unwinding"
    /\ pending' = [kind |-> lastOut.exc, msg |-> lastOut.msg]
    /\ UNCHANGED <<env, api_key, preamble, session, ctorExc, nreq, ncalls, nfail,
                   lastArgs, lastReq, lastResp, lastOut, propagated>>

\* the block raises an exception of its own
BlockRaise ==
    /\ pc = "inblock"
    /\ pc' = "unwinding"
    /\ pending' = [kind |-> "ValueError", msg |-> "raised in the block"]
    /\ UNCHANGED <<env, api_key, preamble, session, ctorExc, nreq, ncalls, nfail,
                   lastArgs, lastReq, lastResp, lastOut, propagated>>

\* the "with" statement ends: __exit__ runs, with the pending exception if
\* the block raised; the exception goes on to the caller unless __exit__
\* returned a true value
Exit ==
    /\ pc \in {"inblock", "unwinding"}
    /\ LET r == ResterExit(session, pending)
       IN /\ session' = r.session
          /\ propagated' = IF r.suppress THEN NoException ELSE pending
    /\ pc' = "exited"
    /\ UNCHANGED <<env, api_key, preamble, ctorExc, nreq, ncalls, nfail,
                   lastArgs, lastReq, lastResp, lastOut, pending>>

----------------------------------------------------------------------------
(* Inputs.                                                                 *)

Keys == {PyNone, PyStr("key-from-arg")}
Endpoints == {DefaultEndpoint, "https://api.example.org"}

\* one response of each kind the client tells apart
SomeResponses ==
    { TransportFailure,
      HttpResponse(500, HtmlText),
      HttpResponse(200, HtmlText),
      HttpResponse(200, ListText),
      HttpResponse(400, JsonDumps(("valid_response" :> JBool(FALSE)) @@
                                  ("error" :> JStr("bad material")))),
      HttpResponse(200, JsonDumps(("valid_response" :> JBool(TRUE)) @@
                                  ("response" :> JDict([x \in {"mentioned_with"} |-> "true"])))),
      HttpResponse(200, JsonDumps(("valid_response" :> JBool(TRUE)) @@
                                  ("warning" :> JStr("low confidence")) @@
                                  ("response" :> JDict([x \in {"processed_text"} |-> "[[\"Fe\"]]"])))) }

\* every response: the transport fails, or any body under any status
AllResponses ==
    {TransportFailure}
    \cup {HttpResponse(c, t) : c \in {200, 400, 500}, t \in BodyTexts}
    \cup {HttpResponse(404, HtmlText)}

\* the answers used where the request, not the answer, is under study
FewResponses ==
    { TransportFailure,
      HttpResponse(200, JsonDumps(("valid_response" :> JBool(TRUE)) @@
                                  ("response" :> JList))) }

Words == {"", "Fe"}

\* the lists of words of length at most MaxList
WordLists == UNION {[1..n -> Words] : n \in 0..MaxList}

\* a string or a list of strings
StrOrList == {PyStr(w) : w \in Words} \cup {PyList(l) : l \in WordLists}

\* None, a string or a list of strings
OptStrOrList == {PyNone} \cup StrOrList

----------------------------------------------------------------------------
(* The client's life with a few calls, each answered in one of the ways    *)
(* the client tells apart.                                                 *)

Next ==
    \/ \E key \in Keys, endpoint \in Endpoints : Construct(key, endpoint)
    \/ Enter
    \/ \E resp \in SomeResponses :
          MaterialsSearchCall(PyStr("Fe"), PyNone, TRUE, DefaultTopK, resp, MaxCalls)
    \/ \E resp \in SomeResponses :
          CloseWordsCall(PyList(<<"Fe", "Li">>), PyStr("O"), FALSE, DefaultTopK, resp, MaxCalls)
    \/ \E resp \in SomeResponses :
          MentionedWithCall("Fe", <<"battery", "cathode">>, resp, MaxCalls)
    \/ \E resp \in SomeResponses :
          ProcessTextCall("LiFePO4 cathode", FALSE, FALSE, resp, MaxCalls)
    \/ \E resp \in SomeResponses, w \in {PyStr("iron"), PyList(<<"iron", "oxide">>)} :
          GetEmbeddingCall(w, TRUE, resp, MaxCalls)
    \/ Propagate
    \/ BlockRaise
    \/ Exit

Spec == Init /\ [][Next]_vars

(* The first call on a fresh client, answered in every way.  A call reads  *)
(* the client's endpoint and session headers and nothing else, and Spec    *)
(* shows that calls leave both as they were.                               *)

NextResp ==
    \/ \E key \in Keys : Construct(key, DefaultEndpoint)
    \/ Enter
    \/ \E resp \in AllResponses :
          MaterialsSearchCall(PyStr("Fe"), PyNone, TRUE, DefaultTopK, resp, 1)
    \/ \E resp \in AllResponses :
          CloseWordsCall(PyList(<<"Fe", "Li">>), PyStr("O"), FALSE, DefaultTopK, resp, 1)
    \/ \E resp \in AllResponses :
          MentionedWithCall("Fe", <<"battery", "cathode">>, resp, 1)
    \/ \E resp \in AllResponses :
          ProcessTextCall("LiFePO4 cathode", FALSE, FALSE, resp, 1)
    \/ \E resp \in AllResponses :
          GetEmbeddingCall(PyStr("iron"), TRUE, resp, 1)
    \/ Propagate
    \/ BlockRaise
    \/ Exit

SpecResp == Init /\ [][NextResp]_vars

(* The first call on a fresh client, with every shape of arguments.        *)

NextBuild ==
    \/ \E key \in Keys : Construct(key, DefaultEndpoint)
    \/ Enter
    \/ \E p \in StrOrList, n \in OptStrOrList, im \in BOOLEAN, resp \in FewResponses :
          MaterialsSearchCall(p, n, im, DefaultTopK, resp, 1)
    \/ \E p \in StrOrList, n \in OptStrOrList, im \in BOOLEAN, resp \in FewResponses :
          CloseWordsCall(p, n, im, DefaultTopK, resp, 1)
    \/ \E resp \in FewResponses :
          MentionedWithCall("Fe", <<"battery", "cathode">>, resp, 1)
    \/ \E resp \in FewResponses :
          ProcessTextCall("LiFePO4 cathode", FALSE, FALSE, resp, 1)
    \/ \E w \in StrOrList, im \in BOOLEAN, resp \in FewResponses :
          GetEmbeddingCall(w, im, resp, 1)
    \/ Propagate
    \/ BlockRaise
    \/ Exit

SpecBuild == Init /\ [][NextBuild]_vars

----------------------------------------------------------------------------
(* Properties.                                                             *)

\* the call described by args, made on client self and answered by resp
CallOp(self, a, resp) ==
    CASE a.op = "materials_search" ->
            materials_search(self, a.positive, a.negative, a.ignore_missing, a.top_k, resp)
      [] a.op = "close_words" ->
            close_words(self, a.positive, a.negative, a.ignore_missing, a.top_k, resp)
      [] a.op = "mentioned_with" -> mentioned_with(self, a.material, a.words, resp)
      [] a.op = "process_text" -> process_text(self, a.text, a.exclude_punct, a.phrases, resp)
      [] OTHER -> get_embedding(self, a.wordphrases, a.ignore_missing, resp)

\* the last call was answered with status 200 or 400 and envelope d as body
AnsweredWith(d) ==
    /\ ncalls > 0
    /\ lastResp.ok
    /\ lastResp.status_code \in {200, 400}
    /\ lastResp.text = JsonDumps(d)

IsInvalid(d) ==
    /\ "valid_response" \in DOMAIN d
    /\ ~d["valid_response"].b
    /\ "error" \in DOMAIN d

IsValid(d) ==
    /\ "valid_response" \in DOMAIN d
    /\ d["valid_response"].b
    /\ "response" \in DOMAIN d

\* C1 (as amended): a call answered with status 200 or 400 and an envelope
\* whose valid_response is false fails with MatScholarRestError, and the
\* message is the envelope's error field followed by ". Content: " and the
\* repr of the raw body.
C1_InvalidEnvelopeMessage ==
    \A d \in Envelopes :
        (AnsweredWith(d) /\ IsInvalid(d)) =>
            /\ lastOut.kind = "raise"
            /\ lastOut.exc = "MatScholarRestError"
            /\ lastOut.msg = d["error"].s \o ". Content: b'" \o lastResp.text \o "'"

\* C1 (as claimed): in the same case the message is exactly the envelope's
\* error field, with nothing added.
C1_MessageIsErrorField ==
    \A d \in Envelopes :
        (AnsweredWith(d) /\ IsInvalid(d)) =>
            /\ lastOut.kind = "raise"
            /\ lastOut.exc = "MatScholarRestError"
            /\ lastOut.msg = d["error"].s

C1_Witness ==
    /\ ncalls > 0
    /\ lastResp.status_code = 400
    /\ lastOut.exc = "MatScholarRestError"
    /\ lastOut.msg =
          "bad material. Content: b'{\"valid_response\": false, \"error\": \"bad material\"}'"

\* C2: construction with no key argument and no environment variable fails
\* with MatScholarRestError before a session exists or a request is sent;
\* otherwise it succeeds and the session's x-api-key header is the key
\* (the argument when given, else the variable).
C2_Construction ==
    /\ pc = "failed" =>
          /\ ctorExc = "MatScholarRestError"
          /\ ~session.created
          /\ nreq = 0
    /\ pc \in {"constructed", "inblock", "unwinding", "exited"} =>
          /\ ctorExc = ""
          /\ session.created
          /\ session.headers = ("x-api-key" :> api_key)
          /\ api_key \in {"key-from-arg", "key-from-env"}
          /\ api_key = "key-from-env" => env = PyStr("key-from-env")

\* C3: whatever goes wrong in a domain call, the only exception kind that
\* reaches the caller is MatScholarRestError.
C3_OnlyDomainError ==
    lastOut.kind = "raise" => lastOut.exc = "MatScholarRestError"

\* C4: a call answered with status 200 or 400 and an envelope whose
\* valid_response is true (and that has a response field) returns exactly
\* the response field, and issues a warning if and only if the warning field
\* is present and non-empty, with that text; the warning does not turn the
\* call into a domain error.
C4_ValidEnvelope ==
    \A d \in Envelopes :
        (AnsweredWith(d) /\ IsValid(d)) =>
            LET w == IF "warning" \in DOMAIN d /\ d["warning"].s # ""
                     THEN <<d["warning"].s>>
                     ELSE <<>>
            IN /\ lastOut.warnings = w
               /\ lastOut.exc # "MatScholarRestError"
               /\ lastArgs.op \in {"materials_search", "close_words", "get_embedding"} =>
                     lastOut = Returned(d["response"], w)
               /\ (lastArgs.op = "mentioned_with" /\ lastOut.kind = "return") =>
                     lastOut.value = JRaw(d["response"].d["mentioned_with"])
               /\ (lastArgs.op = "process_text" /\ lastOut.kind = "return") =>
                     lastOut.value = JRaw(d["response"].d["processed_text"])

C4_Witness ==
    /\ lastArgs.op = "materials_search"
    /\ lastResp.text =
          "{\"valid_response\": true, \"warning\": \"low confidence\", \"response\": {\"mentioned_with\": true}}"
    /\ lastOut.kind = "return"
    /\ lastOut.warnings = <<"low confidence">>
    /\ lastOut.value = JDict([x \in {"mentioned_with"} |-> "true"])

\* C5: a response with a status code other than 200 and 400 makes the call
\* fail with MatScholarRestError and a message that contains the status
\* code, whatever the body; the statuses 200 and 400 are treated alike.
C5_StatusCodes ==
    (ncalls > 0 /\ lastResp.ok) =>
        /\ lastResp.status_code \notin {200, 400} =>
              /\ lastOut.kind = "raise"
              /\ lastOut.exc = "MatScholarRestError"
              /\ Contains(lastOut.msg, IntStr(lastResp.status_code))
              /\ lastResp.status_code = 500 => Contains(lastOut.msg, "500")
              /\ lastResp.status_code = 404 => Contains(lastOut.msg, "404")
        /\ lastResp.status_code = 200 =>
              lastOut = CallOp(Self, lastArgs, [lastResp EXCEPT !.status_code = 400]).out
        /\ lastResp.status_code = 400 =>
              lastOut = CallOp(Self, lastArgs, [lastResp EXCEPT !.status_code = 200]).out

C5_Witness ==
    /\ ncalls > 0
    /\ lastResp.status_code = 500
    /\ \E d \in Envelopes : IsValid(d) /\ lastResp.text = JsonDumps(d)
    /\ lastOut.kind = "raise"
    /\ Contains(lastOut.msg, "status code 500")

\* C6: the session is not closed while the block runs; once the "with"
\* statement is left the session has been closed exactly once, whether the
\* block ended normally or by an exception, and that exception has reached
\* the caller.
C6_ScopeClosesOnce ==
    /\ pc \in {"constructed", "inblock", "unwinding"} => session.closes = 0
    /\ pc = "exited" => (session.closes = 1 /\ propagated = pending)

C6_Witness ==
    /\ pc = "exited"
    /\ ncalls = 2
    /\ pending.kind = "MatScholarRestError"
    /\ propagated = pending
    /\ session.closes = 1

\* C7: get_embedding of a string w sends GET /embeddings/w with
\* ignore_missing as the only query parameter; get_embedding of a list, of
\* whatever length, sends POST /embeddings with the list, in order, under
\* wordphrases and ignore_missing in the JSON body.
C7_EmbeddingRequest ==
    lastArgs.op = "get_embedding" =>
        LET w == lastArgs.wordphrases
            im == lastArgs.ignore_missing
        IN /\ w.t = "str" =>
                /\ lastReq.method = "GET"
                /\ lastReq.url = preamble \o "/embeddings/" \o w.s
                /\ lastReq.params = ("ignore_missing" :> (IF im THEN "True" ELSE "False"))
                /\ lastReq.json = NoJson
           /\ w.t = "list" =>
                /\ lastReq.method = "POST"
                /\ lastReq.url = preamble \o "/embeddings"
                /\ lastReq.params = NoParams
                /\ DOMAIN lastReq.json = {"wordphrases", "ignore_missing"}
                /\ lastReq.json["wordphrases"].l = w.l
                /\ lastReq.json["ignore_missing"] = PyBool(im)

C7_Witness ==
    /\ lastArgs.op = "get_embedding"
    /\ lastArgs.wordphrases = PyList(<<"Fe">>)
    /\ lastReq.method = "POST"
    /\ lastReq.url = "http://0.0.0.0:8080/embeddings"
    /\ lastReq.json["wordphrases"].l = <<"Fe">>

\* the last call and what it would have been with other arguments
SameAsWith(args) ==
    LET r == CallOp(Self, args, lastResp)
    IN /\ lastReq = r.reqs[Len(r.reqs)]
       /\ lastOut = r.out

\* C8 (as amended): for materials_search and close_words, a string s passed
\* as positive, and a non-empty string s passed as negative, give the same
\* request and the same outcome as the one-element list [s].
C8_StringAsOneElementList ==
    lastArgs.op \in {"materials_search", "close_words"} =>
        /\ lastArgs.positive.t = "str" =>
              SameAsWith([lastArgs EXCEPT !.positive = PyList(<<lastArgs.positive.s>>)])
        /\ (lastArgs.negative.t = "str" /\ lastArgs.negative.s # "") =>
              SameAsWith([lastArgs EXCEPT !.negative = PyList(<<lastArgs.negative.s>>)])

\* C8 (as claimed): the same for every string s, the empty one included.
C8_EveryStringAsOneElementList ==
    lastArgs.op \in {"materials_search", "close_words"} =>
        /\ lastArgs.positive.t = "str" =>
              SameAsWith([lastArgs EXCEPT !.positive = PyList(<<lastArgs.positive.s>>)])
        /\ lastArgs.negative.t = "str" =>
              SameAsWith([lastArgs EXCEPT !.negative = PyList(<<lastArgs.negative.s>>)])

C8_Witness ==
    /\ lastArgs.op = "close_words"
    /\ lastArgs.positive = PyStr("Fe")
    /\ lastArgs.negative = PyStr("Fe")
    /\ lastReq.url = "http://0.0.0.0:8080/embeddings/close_words/Fe"
    /\ lastReq.params["negative"] = "Fe"

\* C9: materials_search and close_words with negative=None send a query
\* without a negative field; with a non-empty string or list as negative the
\* field is the items joined by commas in input order; top_k and
\* ignore_missing are always sent.
C9_NegativeField ==
    lastArgs.op \in {"materials_search", "close_words"} =>
        LET n == lastArgs.negative
        IN /\ lastReq.method = "GET"
           /\ {"top_k", "ignore_missing"} \subseteq DOMAIN lastReq.params
           /\ lastReq.params["top_k"] = "10"
           /\ lastReq.params["ignore_missing"] = (IF lastArgs.ignore_missing THEN "True" ELSE "False")
           /\ n.t = "none" => "negative" \notin DOMAIN lastReq.params
           /\ (n.t = "str" /\ n.s # "") =>
                 ("negative" \in DOMAIN lastReq.params /\ lastReq.params["negative"] = n.s)
           /\ (n.t = "list" /\ n.l # <<>>) =>
                 ("negative" \in DOMAIN lastReq.params /\ lastReq.params["negative"] = Join(",", n.l))
           /\ n = PyList(<<"Fe", "">>) => lastReq.params["negative"] = "Fe,"
           /\ n = PyList(<<"", "Fe">>) => lastReq.params["negative"] = ",Fe"

C9_Witness ==
    /\ lastArgs.op = "materials_search"
    /\ lastArgs.negative = PyNone
    /\ lastReq.method = "GET"
    /\ DOMAIN lastReq.params = {"top_k", "ignore_missing"}

\* C10: every domain call sends exactly one HTTP request, however it ends,
\* and leaves the client's API key, endpoint and session as they were; the
\* request carries the key the client was constructed with.
C10_OneRequestPerCall ==
    [][ncalls' # ncalls =>
          /\ ncalls' = ncalls + 1
          /\ nreq' = nreq + 1
          /\ client' = client
          /\ lastReq'.headers = ("x-api-key" :> api_key)
          /\ lastOut' = CallOp(Self, lastArgs', lastResp').out]_vars

C10_Witness ==
    /\ ncalls = 2
    /\ nreq = 2
    /\ nfail = 1
    /\ lastOut.kind = "return"

====
